---- MODULE Spec2Model ----
(***************************************************************************)
(* leak-detect-allocator: a GlobalAlloc wrapper (LeakTracer) that forwards *)
(* alloc / realloc / dealloc to the System allocator and keeps a registry  *)
(* (allocates) of live pointers with the call stack that allocated them.   *)
(*                                                                         *)
(* Every shared access of the code is one step of the model: a load or a   *)
(* store of the atomic flag `enabled`, one critical section of the spin    *)
(* mutex around `allocates`, one call of the System allocator.  What a     *)
(* thread does between two shared accesses touches only its own locals and *)
(* is folded into the step that follows it.                                *)
(***************************************************************************)
EXTENDS Integers, Sequences, FiniteSets, TLC

(***************************************************************************)
(* Bounds of the model.                                                    *)
(***************************************************************************)
\* threads that call into the allocator
NumThreads == 2
\* addresses the System allocator can hand out
NumAddrs == 2
\* requested sizes are 1..MaxSize
MaxSize == 2
\* the const generic STACK_SIZE of LeakTracer<STACK_SIZE>
STACK_SIZE == 1
\* frames the unwinder delivers in one walk, at most
MaxFrames == 3
\* symbols one frame resolves to (inlined functions), at most
MaxInline == 2
\* frames of a stack walk taken by itself, at most
MaxTrace == 4

(***************************************************************************)
(* Constants of the program.                                               *)
(***************************************************************************)
\* the null pointer the System allocator returns on failure
NULL == 0
\* capacity of HeaplessString<500>
TextCap == 500
\* `let mut skip_count = 2`
SkipCount == 2
\* the spin mutex when nobody holds it
Unlocked == 0

Threads == 1..NumThreads
Addrs == 1..NumAddrs
Sizes == 1..MaxSize

\* Option<T>: None is the empty sequence, Some(x) the one-element sequence
None == << >>
Some(x) == << x >>
IsSome(o) == o # None
Unwrap(o) == o[1]

(***************************************************************************)
(* hashbrown::HashMap as a function whose domain is the key set.           *)
(***************************************************************************)
EmptyMap == << >>

\* HashMap::insert: the value under k is replaced when k is present
MapInsert(m, k, v) == [x \in DOMAIN m \cup {k} |-> IF x = k THEN v ELSE m[x]]

MapRemoveNothing(m, k) == m

\* HashMap::remove: no effect when k is absent
MapRemove(m, k) == [x \in DOMAIN m \ {k} |-> m[x]]

(***************************************************************************)
(* The symbols the resolver can hand to the visitor.  A text is modelled   *)
(* by its length in bytes and by whether it is valid UTF-8; a raw filename *)
(* is narrow (Bytes) or wide (Wide, decoded lossily).                      *)
(***************************************************************************)
Text(len, utf8) == [len |-> len, utf8 |-> utf8]
RawName(enc, len, utf8) == [enc |-> enc, len |-> len, utf8 |-> utf8]

Sym(name, filename, lineno, colno, addr) == [name |-> name, filename |-> filename, lineno |-> lineno, colno |-> colno, addr |-> addr]

\* fully resolved, both texts exactly as long as the buffers
SymFull == Sym(Some(Text(TextCap, TRUE)), Some(RawName("Bytes", TextCap, TRUE)), Some(1), Some(1), Some(1))
\* a name one byte longer than the buffer
SymLongName == Sym(Some(Text(TextCap + 1, TRUE)), None, None, None, Some(1))
\* a wide filename one byte longer than the buffer
SymLongWide == Sym(None, Some(RawName("Wide", TextCap + 1, FALSE)), Some(1), None, Some(1))
\* a narrow filename that is not UTF-8
SymBadBytes == Sym(None, Some(RawName("Bytes", 1, FALSE)), None, None, Some(1))
\* a name that is not UTF-8
SymBadName == Sym(Some(Text(1, FALSE)), None, None, None, Some(1))
\* no address
SymNoAddr == Sym(None, None, None, None, None)

Symbols == {SymFull, SymLongName, SymLongWide, SymBadBytes, SymBadName, SymNoAddr}

(***************************************************************************)
(* A computation that may panic: [ok |-> TRUE, val |-> v] or Panic.        *)
(***************************************************************************)
Ok(v) == [ok |-> TRUE, val |-> v]
Panic == [ok |-> FALSE, val |-> None]

\* heapless 0.7, impl From<&str> for String<N>: push_str(s).unwrap()
HeaplessStringFrom(len) == IF len <= TextCap THEN Ok(len) ELSE Panic

\* name(): x.as_str().unwrap(), then HeaplessString::from
CallName(name) ==
    IF ~IsSome(name) THEN Ok(None)
    ELSE IF ~Unwrap(name).utf8 THEN Panic
    ELSE LET s == HeaplessStringFrom(Unwrap(name).len)
         IN IF s.ok THEN Ok(Some(s.val)) ELSE Panic

\* filename_raw(): Bytes go through from_utf8(bytes).unwrap(); Wide is decoded with
\* chars_lossy and pushed char by char, each push unwrapped
CallFilename(filename) ==
    IF ~IsSome(filename) THEN Ok(None)
    ELSE LET f == Unwrap(filename)
         IN IF f.enc = "Bytes"
            THEN IF ~f.utf8 THEN Panic
                 ELSE LET s == HeaplessStringFrom(f.len)
                      IN IF s.ok THEN Ok(Some(s.val)) ELSE Panic
            ELSE IF f.len <= TextCap THEN Ok(Some(f.len)) ELSE Panic

\* impl From<&Symbol> for Call
CallFrom(value) ==
    IF ~IsSome(value.addr) THEN Panic
    ELSE LET name == CallName(value.name)
             filename == CallFilename(value.filename)
         IN IF ~name.ok \/ ~filename.ok THEN Panic
            ELSE Ok([name |-> name.val, filename |-> filename.val, line |-> value.lineno, col |-> value.colno, addr |-> Unwrap(value.addr)])

PushUnchecked(vec, item) == Ok(Append(vec, item))

\* heapless::Vec::push: Err(item) when the vector is full; the caller unwraps it
Push(vec, item) == IF Len(vec) < STACK_SIZE THEN Ok(Append(vec, item)) ELSE Panic

(***************************************************************************)
(* The stack walk of alloc_accounting.  A walk state holds the locals the  *)
(* closures capture (stack, count, skip_count) and how the walk stands:    *)
(* "walk" (the visitor returned true), "stop" (it returned false) or       *)
(* "panic" (an unwrap failed).                                             *)
(***************************************************************************)
WalkInit == [stack |-> << >>, count |-> 0, skip_count |-> SkipCount, st |-> "walk"]

\* the closure given to resolve_frame_unsynchronized, called once per symbol
RECURSIVE ResolveFrame(_, _)
ResolveFrame(w, frame) ==
    IF frame = << >> \/ w.st = "panic" THEN w
    ELSE LET call == CallFrom(Head(frame))
             pushed == IF call.ok THEN Push(w.stack, call.val) ELSE Panic
         IN IF ~pushed.ok THEN [w EXCEPT !.st = "panic"]
            ELSE ResolveFrame([w EXCEPT !.stack = pushed.val, !.count = @ + 1], Tail(frame))

\* the closure given to trace_unsynchronized, called once per frame
Visit(w, frame) ==
    IF w.skip_count > 0 THEN [w EXCEPT !.skip_count = @ - 1]
    ELSE LET r == ResolveFrame(w, frame)
         IN IF r.st = "panic" THEN r
            ELSE IF r.count >= STACK_SIZE THEN [r EXCEPT !.st = "stop"] ELSE r

\* what a frame can resolve to: zero to MaxInline symbols
RECURSIVE SeqsUpTo(_, _)
SeqsUpTo(S, n) == IF n = 0 THEN {<< >>} ELSE LET shorter == SeqsUpTo(S, n - 1) IN shorter \cup {Append(s, x) : s \in {q \in shorter : Len(q) = n - 1}, x \in S}

Frames == SeqsUpTo(Symbols, MaxInline)

\* the symbols of a walk taken by itself: one that converts to a Call and one that does not
WalkSymbols == {SymFull, SymNoAddr}

\* the call stacks the unwinder may find: up to n frames, innermost first
Traces(n) == SeqsUpTo(SeqsUpTo(WalkSymbols, MaxInline), n)

\* trace_unsynchronized: the walk states after exactly n frames were delivered
RECURSIVE Walked(_)
Walked(n) == IF n = 0 THEN {WalkInit} ELSE {Visit(w, f) : w \in {v \in Walked(n - 1) : v.st = "walk"}, f \in Frames}

\* every way a walk of at most MaxFrames frames can end: by a panic, by the visitor
\* stopping it, or by the unwinder running out of frames
WalkEnds == UNION {Walked(n) : n \in 0..MaxFrames}

\* the captured stack, or Panic
Captures == {IF w.st = "panic" THEN Panic ELSE Ok(w.stack) : w \in WalkEnds}

AllocationRecordNoSize(size, ptr, stack) == [size |-> 0, ptr |-> ptr, stack |-> stack]

\* `AllocationRecord { size, ptr: ptr as usize, stack }`
AllocationRecord(size, ptr, stack) == [size |-> size, ptr |-> ptr, stack |-> stack]

(***************************************************************************)
(* State.                                                                  *)
(*   enabled, allocates, lock   LeakTracerInner: the atomic flag, the map  *)
(*                              and the spin mutex that guards the map     *)
(*   heap      the blocks the System allocator has handed out, by address; *)
(*             each carries what the caller and the claims need to know of *)
(*             it: size (its layout),                                      *)
(*             busy (it is the subject of a hook call in flight, not in    *)
(*             the caller's hands), traced (alloc_accounting read enabled  *)
(*             as true for it), win (it was allocated between a disable()  *)
(*             and the next enable())                                      *)
(*   want      the flag as enable()/disable() last set it                  *)
(*   pc, op    per thread: where it stands, and in which call; at "relock" *)
(*             it stands at `allocates.lock()` inside a critical section   *)
(*             of its own                                                  *)
(*   ptr0, ptr, size, stack, cur, out   per thread: the locals of the      *)
(*             call in flight, named as in the source                      *)
(*   ret       per thread: the value the hook call returns                 *)
(*   fwd       per thread: calls of the System allocator made by the hook  *)
(*             call in flight                                              *)
(*   trace, seen, walk   a stack walk taken by itself: the frames the      *)
(*             unwinder has to deliver, how many of them it has delivered, *)
(*             and the walk state                                          *)
(***************************************************************************)
VARIABLES enabled, allocates, lock, heap, want, pc, op, ptr0, ptr, size, stack, cur, out, ret, fwd, trace, seen, walk

registry == << enabled, allocates, lock >>
locals == << op, ptr0, ptr, size, stack, cur, out, ret, fwd >>
capture == << trace, seen, walk >>
vars == << enabled, allocates, lock, heap, want, pc, op, ptr0, ptr, size, stack, cur, out, ret, fwd, trace, seen, walk >>

Block(sz, w) == [size |-> sz, busy |-> TRUE, traced |-> FALSE, win |-> w]

\* addresses the System allocator may return for an allocation: a free one, or NULL
Free == Addrs \ DOMAIN heap

\* the blocks handed out, once the System allocator has released the one at p
Released(h, p) == [x \in DOMAIN h \ {p} |-> h[x]]

\* LeakTracerInner::default() behind Lazy::new; no call in flight
Fresh ==
    /\ enabled = TRUE
    /\ allocates = EmptyMap
    /\ lock = Unlocked
    /\ heap = EmptyMap
    /\ want = TRUE
    /\ pc = [t \in Threads |-> "idle"]
    /\ op = [t \in Threads |-> "none"]
    /\ ptr0 = [t \in Threads |-> NULL]
    /\ ptr = [t \in Threads |-> NULL]
    /\ size = [t \in Threads |-> 0]
    /\ stack = [t \in Threads |-> << >>]
    /\ cur = [t \in Threads |-> FALSE]
    /\ out = [t \in Threads |-> EmptyMap]
    /\ ret = [t \in Threads |-> NULL]
    /\ fwd = [t \in Threads |-> 0]

\* no stack walk is taken by itself
Init ==
    /\ Fresh
    /\ trace = << >>
    /\ seen = 0
    /\ walk = WalkInit

(***************************************************************************)
(* GlobalAlloc::alloc, first half: System.alloc(layout).  p is what the    *)
(* System allocator returns.                                               *)
(***************************************************************************)
AllocCall(t, sz, p) ==
    /\ pc[t] = "idle"
    /\ heap' = IF p = NULL THEN heap ELSE MapInsert(heap, p, Block(sz, ~want))
    /\ pc' = [pc EXCEPT ![t] = "alloc_accounting"]
    /\ op' = [op EXCEPT ![t] = "alloc"]
    /\ ptr' = [ptr EXCEPT ![t] = p]
    /\ size' = [size EXCEPT ![t] = sz]
    /\ fwd' = [fwd EXCEPT ![t] = 1]
    /\ UNCHANGED << registry, want, ptr0, stack, cur, out, ret >>
    /\ UNCHANGED capture

alloc(t) == \E sz \in Sizes, p \in Free \cup {NULL} : AllocCall(t, sz, p)

\* alloc of one byte when the System allocator has memory to give
alloc_unit(t) == \E p \in Free : AllocCall(t, 1, p)

\* alloc when the System allocator has memory to give
alloc_ok(t) == \E sz \in Sizes, p \in Free : AllocCall(t, sz, p)

DisabledReturnNull(p) == NULL

\* `if !enabled { return ptr; }`, the value alloc hands on to its caller
DisabledReturn(p) == p

\* the flag as alloc_accounting reads it noted on the block
Noted(h, p, flag) == IF p \in DOMAIN h THEN [h EXCEPT ![p].traced = flag, ![p].win = @ /\ ~want] ELSE h

(***************************************************************************)
(* alloc_accounting up to the lock: the load of enabled and, when it is    *)
(* true, the stack walk, which touches nothing shared.                     *)
(***************************************************************************)
alloc_accounting(t) ==
    /\ pc[t] = "alloc_accounting"
    /\ heap' = Noted(heap, ptr[t], enabled)
    /\ IF ~enabled
       THEN /\ pc' = [pc EXCEPT ![t] = "done"]
            /\ ret' = [ret EXCEPT ![t] = IF op[t] = "realloc" THEN ptr[t] ELSE DisabledReturn(ptr[t])]
            /\ UNCHANGED stack
       ELSE /\ \E c \in Captures :
                 IF c.ok
                 THEN pc' = [pc EXCEPT ![t] = "insert"] /\ stack' = [stack EXCEPT ![t] = c.val]
                 ELSE pc' = [pc EXCEPT ![t] = "panicked"] /\ UNCHANGED stack
            /\ UNCHANGED ret
    /\ UNCHANGED << registry, want, op, ptr0, ptr, size, cur, out, fwd >>
    /\ UNCHANGED capture

NotLocked(t) == Unlocked

\* the spin mutex once t has taken it
Locked(t) == t

HookAllocator == "Global"

\* the allocator parameter of both maps: `HashMap<usize, AllocationRecord<STACK_SIZE>,
\* DefaultHashBuilder, System>`
MapAllocator == "System"

\* HashMap::insert asks its allocator for memory when the table has to grow.  Asked of the
\* global allocator, that is a call of alloc of this very hook on the same thread: its
\* alloc_accounting, reading the flag as true, comes to `allocates.lock()`
Reenters(grow, flag) == grow /\ MapAllocator # "System" /\ flag

\* `self.0.allocates.lock().insert(ptr as usize, allocation_record); ptr`; alloc returns
\* that value, realloc returns its own `ptr`
insert(t) ==
    /\ pc[t] = "insert"
    /\ lock = Unlocked
    /\ \E grow \in BOOLEAN :
         IF Reenters(grow, enabled)
         THEN /\ lock' = Locked(t)
              /\ pc' = [pc EXCEPT ![t] = "relock"]
              /\ UNCHANGED << allocates, ret >>
         ELSE /\ allocates' = MapInsert(allocates, ptr[t], AllocationRecord(size[t], ptr[t], stack[t]))
              /\ ret' = [ret EXCEPT ![t] = ptr[t]]
              /\ pc' = [pc EXCEPT ![t] = "done"]
              /\ UNCHANGED lock
    /\ UNCHANGED << enabled, heap, want, op, ptr0, ptr, size, stack, cur, out, fwd >>
    /\ UNCHANGED capture

(***************************************************************************)
(* GlobalAlloc::dealloc: dealloc_accounting(ptr), then System.dealloc.     *)
(***************************************************************************)
DeallocCall(t, p) ==
    /\ pc[t] = "idle"
    /\ p \in DOMAIN heap
    /\ ~heap[p].busy
    /\ heap' = [heap EXCEPT ![p].busy = TRUE]
    /\ pc' = [pc EXCEPT ![t] = "dealloc_accounting"]
    /\ op' = [op EXCEPT ![t] = "dealloc"]
    /\ ptr' = [ptr EXCEPT ![t] = p]
    /\ UNCHANGED << registry, want, ptr0, size, stack, cur, out, ret, fwd >>
    /\ UNCHANGED capture

dealloc(t) == \E p \in DOMAIN heap : DeallocCall(t, p)

DeallocArgNew(t) == ptr[t]

\* the pointer dealloc_accounting is called with: ptr0 in realloc, ptr in dealloc
DeallocArg(t) == IF op[t] = "realloc" THEN ptr0[t] ELSE ptr[t]

AfterDeallocReturn(t) == IF op[t] = "realloc" THEN "alloc_accounting" ELSE "done"

\* where the caller of dealloc_accounting goes on
AfterDealloc(t) == IF op[t] = "realloc" THEN "alloc_accounting" ELSE "sys_dealloc"

AfterFlagLock(t, flag) == "remove"

\* `if !enabled { return; }`: where dealloc_accounting goes on once it has read the flag
AfterFlag(t, flag) == IF flag THEN "remove" ELSE AfterDealloc(t)

dealloc_accounting(t) ==
    /\ pc[t] = "dealloc_accounting"
    /\ pc' = [pc EXCEPT ![t] = AfterFlag(t, enabled)]
    /\ UNCHANGED << registry, heap, want, locals >>
    /\ UNCHANGED capture

\* `self.0.allocates.lock().remove(&(ptr as usize));`
remove(t) ==
    /\ pc[t] = "remove"
    /\ lock = Unlocked
    /\ allocates' = MapRemove(allocates, DeallocArg(t))
    /\ pc' = [pc EXCEPT ![t] = AfterDealloc(t)]
    /\ UNCHANGED << enabled, lock, heap, want, locals >>
    /\ UNCHANGED capture

\* `System.dealloc(ptr, layout)`
sys_dealloc(t) ==
    /\ pc[t] = "sys_dealloc"
    /\ heap' = Released(heap, ptr[t])
    /\ fwd' = [fwd EXCEPT ![t] = @ + 1]
    /\ pc' = [pc EXCEPT ![t] = "done"]
    /\ UNCHANGED << registry, want, op, ptr0, ptr, size, stack, cur, out, ret >>
    /\ UNCHANGED capture

(***************************************************************************)
(* GlobalAlloc::realloc, first half: System.realloc(ptr0, layout,          *)
(* new_size) returns q: ptr0 itself (resized in place), a free address     *)
(* (the block moved and ptr0 is released) or NULL (failure: the block at   *)
(* ptr0 is untouched).  `if ptr != ptr0` decides what follows.             *)
(***************************************************************************)
MovesAlways(q, p) == TRUE

\* `if ptr != ptr0`
Moves(q, p) == q # p

ReallocCall(t, p, new_size, q) ==
    /\ pc[t] = "idle"
    /\ p \in DOMAIN heap
    /\ ~heap[p].busy
    /\ heap' = IF q = p THEN [heap EXCEPT ![p].size = new_size, ![p].busy = TRUE]
               ELSE IF q = NULL THEN [heap EXCEPT ![p].busy = TRUE]
               ELSE MapInsert(Released(heap, p), q, Block(new_size, ~want))
    /\ pc' = [pc EXCEPT ![t] = IF Moves(q, p) THEN "dealloc_accounting" ELSE "done"]
    /\ ret' = [ret EXCEPT ![t] = IF Moves(q, p) THEN @ ELSE q]
    /\ op' = [op EXCEPT ![t] = "realloc"]
    /\ ptr0' = [ptr0 EXCEPT ![t] = p]
    /\ ptr' = [ptr EXCEPT ![t] = q]
    /\ size' = [size EXCEPT ![t] = new_size]
    /\ fwd' = [fwd EXCEPT ![t] = 1]
    /\ UNCHANGED << registry, want, stack, cur, out >>
    /\ UNCHANGED capture

realloc(t) == \E p \in DOMAIN heap, new_size \in Sizes : \E q \in Free \cup {p, NULL} : ReallocCall(t, p, new_size, q)

\* realloc when the System allocator has memory to give
realloc_ok(t) == \E p \in DOMAIN heap, new_size \in Sizes : \E q \in Free \cup {p} : ReallocCall(t, p, new_size, q)

(***************************************************************************)
(* enable / disable: one store.                                            *)
(***************************************************************************)
disable(t) ==
    /\ pc[t] = "idle"
    /\ enabled' = FALSE
    /\ want' = FALSE
    /\ UNCHANGED << allocates, lock, heap, pc, locals >>
    /\ UNCHANGED capture

enable(t) ==
    /\ pc[t] = "idle"
    /\ enabled' = TRUE
    /\ want' = TRUE
    /\ heap' = [a \in DOMAIN heap |-> IF heap[a].busy THEN [heap[a] EXCEPT !.win = FALSE] ELSE heap[a]]
    /\ UNCHANGED << allocates, lock, pc, locals >>
    /\ UNCHANGED capture

(***************************************************************************)
(* get_leaks.                                                              *)
(***************************************************************************)
\* `let cur = self.0.enabled.load(Ordering::SeqCst);`
get_leaks(t) ==
    /\ pc[t] = "idle"
    /\ cur' = [cur EXCEPT ![t] = enabled]
    /\ op' = [op EXCEPT ![t] = "get_leaks"]
    /\ pc' = [pc EXCEPT ![t] = "g_disable"]
    /\ UNCHANGED << registry, heap, want, ptr0, ptr, size, stack, out, ret, fwd >>
    /\ UNCHANGED capture

\* `self.0.enabled.store(false, Ordering::SeqCst);`
g_disable(t) ==
    /\ pc[t] = "g_disable"
    /\ enabled' = FALSE
    /\ pc' = [pc EXCEPT ![t] = "g_lock"]
    /\ UNCHANGED << allocates, lock, heap, want, locals >>
    /\ UNCHANGED capture

\* `self.0.allocates.lock()`: spins until the mutex is free
g_lock(t) ==
    /\ pc[t] = "g_lock"
    /\ lock = Unlocked
    /\ lock' = Locked(t)
    /\ pc' = [pc EXCEPT ![t] = "g_copy"]
    /\ UNCHANGED << enabled, allocates, heap, want, locals >>
    /\ UNCHANGED capture

Drain(m, k) == [x \in DOMAIN m \ {k} |-> m[x]]

\* `.iter()` borrows the map shared: the map after the iterator has yielded the entry of k
Iter(m, k) == m

\* one turn of `for (k, v) in ... .iter() { out.insert(*k, v.clone()); }`
g_copy(t) ==
    /\ pc[t] = "g_copy"
    /\ \E k \in DOMAIN allocates \ DOMAIN out[t], grow \in BOOLEAN :
         IF Reenters(grow, enabled)
         THEN pc' = [pc EXCEPT ![t] = "relock"] /\ UNCHANGED << allocates, out >>
         ELSE /\ out' = [out EXCEPT ![t] = MapInsert(@, k, allocates[k])]
              /\ allocates' = Iter(allocates, k)
              /\ UNCHANGED pc
    /\ UNCHANGED << enabled, lock, heap, want, op, ptr0, ptr, size, stack, cur, ret, fwd >>
    /\ UNCHANGED capture

\* the iterator is exhausted: the guard, a temporary of the `for`, is dropped
g_unlock(t) ==
    /\ pc[t] = "g_copy"
    /\ DOMAIN allocates \subseteq DOMAIN out[t]
    /\ lock' = Unlocked
    /\ pc' = [pc EXCEPT ![t] = "g_restore"]
    /\ UNCHANGED << enabled, allocates, heap, want, locals >>
    /\ UNCHANGED capture

\* the value `self.0.enabled.store(cur, Ordering::SeqCst)` stores
Restore(c) == c

g_restore(t) ==
    /\ pc[t] = "g_restore"
    /\ enabled' = Restore(cur[t])
    /\ pc' = [pc EXCEPT ![t] = "done"]
    /\ UNCHANGED << allocates, lock, heap, want, locals >>
    /\ UNCHANGED capture

(***************************************************************************)
(* The call returns to its caller.  The block the caller now holds (the    *)
(* one allocated, the one reallocated, or the old one when realloc failed) *)
(* is in its hands again; the locals are gone.                             *)
(***************************************************************************)
Handed(t) == IF op[t] = "realloc" /\ ptr[t] = NULL THEN ptr0[t] ELSE ptr[t]

Return(t) ==
    /\ pc[t] = "done"
    /\ heap' = IF op[t] \in {"alloc", "realloc"} /\ Handed(t) \in DOMAIN heap
               THEN [heap EXCEPT ![Handed(t)].busy = FALSE] ELSE heap
    /\ pc' = [pc EXCEPT ![t] = "idle"]
    /\ op' = [op EXCEPT ![t] = "none"]
    /\ ptr0' = [ptr0 EXCEPT ![t] = NULL]
    /\ ptr' = [ptr EXCEPT ![t] = NULL]
    /\ size' = [size EXCEPT ![t] = 0]
    /\ stack' = [stack EXCEPT ![t] = << >>]
    /\ cur' = [cur EXCEPT ![t] = FALSE]
    /\ out' = [out EXCEPT ![t] = EmptyMap]
    /\ ret' = [ret EXCEPT ![t] = NULL]
    /\ fwd' = [fwd EXCEPT ![t] = 0]
    /\ UNCHANGED << registry, want >>
    /\ UNCHANGED capture

(***************************************************************************)
(* One step of thread t, in any call.                                      *)
(***************************************************************************)
Step(t) ==
    \/ alloc(t)
    \/ alloc_accounting(t)
    \/ insert(t)
    \/ dealloc(t)
    \/ dealloc_accounting(t)
    \/ remove(t)
    \/ sys_dealloc(t)
    \/ realloc(t)
    \/ enable(t)
    \/ disable(t)
    \/ get_leaks(t)
    \/ g_disable(t)
    \/ g_lock(t)
    \/ g_copy(t)
    \/ g_unlock(t)
    \/ g_restore(t)
    \/ Return(t)

\* any threads, any calls
Next == \E t \in Threads : Step(t)

Spec == Init /\ [][Next]_vars

\* one thread, any calls
NextSeq == Step(1)

SpecSeq == Init /\ [][NextSeq]_vars

(***************************************************************************)
(* The stack walk of alloc_accounting taken by itself, on any call stack   *)
(* of up to MaxTrace frames: the unwinder delivers the next frame to the   *)
(* visitor for as long as the visitor returns true.                        *)
(***************************************************************************)
InitWalk ==
    /\ Fresh
    /\ trace \in Traces(MaxTrace)
    /\ seen = 0
    /\ walk = WalkInit

trace_unsynchronized ==
    /\ seen < Len(trace)
    /\ walk.st = "walk"
    /\ walk' = Visit(walk, trace[seen + 1])
    /\ seen' = seen + 1
    /\ UNCHANGED << registry, heap, want, pc, locals, trace >>

NextWalk == trace_unsynchronized

SpecWalk == InitWalk /\ [][NextWalk]_vars

(***************************************************************************)
(* The race test: threads that only allocate and deallocate, tracking      *)
(* enabled, a System allocator that does not run out of memory.            *)
(***************************************************************************)
RaceStep(t) ==
    \/ alloc_ok(t)
    \/ alloc_accounting(t)
    \/ insert(t)
    \/ dealloc(t)
    \/ dealloc_accounting(t)
    \/ remove(t)
    \/ sys_dealloc(t)
    \/ Return(t)

NextRace == \E t \in Threads : RaceStep(t)

SpecRace == Init /\ [][NextRace]_vars

(***************************************************************************)
(* One thread that allocates, deallocates and takes snapshots, tracking    *)
(* enabled, every allocation successful.                                   *)
(***************************************************************************)
NextLeaks ==
    \/ alloc_ok(1)
    \/ alloc_accounting(1)
    \/ insert(1)
    \/ dealloc(1)
    \/ dealloc_accounting(1)
    \/ remove(1)
    \/ sys_dealloc(1)
    \/ get_leaks(1)
    \/ g_disable(1)
    \/ g_lock(1)
    \/ g_copy(1)
    \/ g_unlock(1)
    \/ g_restore(1)
    \/ Return(1)

SpecLeaks == Init /\ [][NextLeaks]_vars

(***************************************************************************)
(* Snapshots against the hook: threads that allocate, call get_leaks and   *)
(* call disable(); nobody calls enable().                                  *)
(***************************************************************************)
NextSnapshot ==
    \E t \in Threads :
        \/ alloc_ok(t)
        \/ alloc_accounting(t)
        \/ insert(t)
        \/ disable(t)
        \/ get_leaks(t)
        \/ g_disable(t)
        \/ g_lock(t)
        \/ g_copy(t)
        \/ g_unlock(t)
        \/ g_restore(t)
        \/ Return(t)

SpecSnapshot == Init /\ [][NextSnapshot]_vars

(***************************************************************************)
(* One thread that allocates, switches tracking off and on and takes       *)
(* snapshots; every allocation successful, nothing released.               *)
(***************************************************************************)
NextApi ==
    \/ alloc_ok(1)
    \/ alloc_accounting(1)
    \/ insert(1)
    \/ enable(1)
    \/ disable(1)
    \/ get_leaks(1)
    \/ g_disable(1)
    \/ g_lock(1)
    \/ g_copy(1)
    \/ g_unlock(1)
    \/ g_restore(1)
    \/ Return(1)

SpecApi == Init /\ [][NextApi]_vars

(***************************************************************************)
(* One thread that allocates and reallocates, tracking enabled, every call  *)
(* of the System allocator successful.                                     *)
(***************************************************************************)
NextMove ==
    \/ alloc_ok(1)
    \/ alloc_accounting(1)
    \/ insert(1)
    \/ realloc_ok(1)
    \/ dealloc_accounting(1)
    \/ remove(1)
    \/ Return(1)

SpecMove == Init /\ [][NextMove]_vars

(***************************************************************************)
(* One thread that allocates and deallocates and switches tracking off and *)
(* on; every allocation successful.                                        *)
(***************************************************************************)
NextFree ==
    \/ alloc_ok(1)
    \/ alloc_accounting(1)
    \/ insert(1)
    \/ dealloc(1)
    \/ dealloc_accounting(1)
    \/ remove(1)
    \/ sys_dealloc(1)
    \/ enable(1)
    \/ disable(1)
    \/ Return(1)

SpecFree == Init /\ [][NextFree]_vars

(***************************************************************************)
(* A thread that takes snapshots while another allocates and deallocates   *)
(* blocks of one byte; nobody calls enable() or disable(), every           *)
(* allocation successful.                                                  *)
(***************************************************************************)
Watcher == 1
Mutator == 2

NextWatch ==
    \/ get_leaks(Watcher)
    \/ g_disable(Watcher)
    \/ g_lock(Watcher)
    \/ g_copy(Watcher)
    \/ g_unlock(Watcher)
    \/ g_restore(Watcher)
    \/ Return(Watcher)
    \/ alloc_unit(Mutator)
    \/ alloc_accounting(Mutator)
    \/ insert(Mutator)
    \/ dealloc(Mutator)
    \/ dealloc_accounting(Mutator)
    \/ remove(Mutator)
    \/ sys_dealloc(Mutator)
    \/ Return(Mutator)

SpecWatch == Init /\ [][NextWatch]_vars

(***************************************************************************)
(* Threads that allocate and reallocate, tracking enabled, every call of   *)
(* the System allocator successful, nothing deallocated.                   *)
(***************************************************************************)
NextShift ==
    \E t \in Threads :
        \/ alloc_unit(t)
        \/ realloc_ok(t)
        \/ alloc_accounting(t)
        \/ insert(t)
        \/ dealloc_accounting(t)
        \/ remove(t)
        \/ Return(t)

SpecShift == Init /\ [][NextShift]_vars

(***************************************************************************)
(* What the claims speak of.                                               *)
(***************************************************************************)
\* no call is in flight
Quiescent == \A t \in Threads : pc[t] = "idle"

\* the blocks in their callers' hands
Live == {a \in DOMAIN heap : ~heap[a].busy}

\* the blocks for which alloc_accounting read the flag as true
Tracked == {a \in DOMAIN heap : heap[a].traced}

\* thread t has come to the end of a hook call
HookDone(t) == pc[t] = "done" /\ op[t] \in {"alloc", "realloc", "dealloc"}

\* thread t has come to the end of get_leaks, which returns out[t]
LeaksDone(t) == pc[t] = "done" /\ op[t] = "get_leaks"

\* thread t takes the step that executes the insert of alloc_accounting
Inserts(t) == pc[t] = "insert" /\ pc'[t] = "done"

(***************************************************************************)
(* C1. Liveness correspondence: whenever no call is in flight, the keys of *)
(* the registry map (NULL, which is no address, left aside) are exactly    *)
(* the addresses allocated through the hook while tracking was enabled and *)
(* not deallocated since.  Violated: a block deallocated while tracking is *)
(* disabled keeps its entry.                                               *)
(***************************************************************************)
C1_LivenessCorrespondence == Quiescent => DOMAIN allocates \ {NULL} = Tracked

C3_NoDuplicateInsert == [][\A t \in Threads : (Inserts(t) /\ ptr[t] # NULL) => ptr[t] \notin DOMAIN allocates]_vars

(***************************************************************************)
(* C4. No accounting on failure: a hook call to which the System allocator *)
(* returned NULL takes no step that changes the registry map.              *)
(***************************************************************************)
C4_NoAccountingOnFailure == [][\A t \in Threads : (op[t] \in {"alloc", "realloc"} /\ ptr[t] = NULL /\ pc'[t] # pc[t]) => allocates' = allocates]_vars

(***************************************************************************)
(* C5. Snapshot restores prior state: as long as nobody has called         *)
(* disable() (and nobody calls enable()), the flag, true at first, is true *)
(* whenever no get_leaks call is in flight.                                *)
(***************************************************************************)
C5_SnapshotRestores == (want /\ \A t \in Threads : op[t] # "get_leaks") => enabled

(***************************************************************************)
(* C6. Disable is immediate and local: an allocation that started after a  *)
(* disable() returned, with no enable() called since, executes no insert.  *)
(***************************************************************************)
C6_DisableIsLocal == [][\A t \in Threads : (Inserts(t) /\ ptr[t] \in DOMAIN heap) => ~heap[ptr[t]].win]_vars

(***************************************************************************)
(* C7. Transparency: a hook call that comes to its end has called the      *)
(* System allocator exactly once, and alloc and realloc return the very    *)
(* pointer the System allocator returned, tracking enabled or not.         *)
(***************************************************************************)
C7_Transparency == \A t \in Threads : HookDone(t) => (fwd[t] = 1 /\ (op[t] # "dealloc" => ret[t] = ptr[t]))

\* an allocation made with tracking disabled returns the block the System allocator gave
C7_Witness == \E t \in Threads : HookDone(t) /\ op[t] = "alloc" /\ ~enabled /\ ret[t] \in DOMAIN heap /\ ~heap[ret[t]].traced

(***************************************************************************)
(* C8. The tracking layer never makes a successful allocation fail: the    *)
(* stack capture of alloc_accounting never aborts the call.                *)
(***************************************************************************)
C8_CaptureNeverAborts == \A t \in Threads : pc[t] # "panicked"

(***************************************************************************)
(* C9. Depth bound: every record in the registry map has a stack of at     *)
(* most STACK_SIZE calls.                                                  *)
(***************************************************************************)
C9_DepthBound == \A a \in DOMAIN allocates : Len(allocates[a].stack) <= STACK_SIZE

\* a record whose stack is full
C9_Witness == \E a \in DOMAIN allocates : Len(allocates[a].stack) = STACK_SIZE

(***************************************************************************)
(* C10. One thread, tracking enabled, successful calls: get_leaks returns  *)
(* one record per block still held, filed under the block's address, with  *)
(* that address as ptr and the requested size as size.                     *)
(***************************************************************************)
C10_LeaksAreLive == \A t \in Threads : LeaksDone(t) => (DOMAIN out[t] = Live /\ \A a \in Live : out[t][a].ptr = a /\ out[t][a].size = heap[a].size)

\* a snapshot of two blocks of different sizes
C10_Witness == \E t \in Threads : LeaksDone(t) /\ \E a, b \in Live : heap[a].size # heap[b].size

(***************************************************************************)
(* C11. enable(), disable() and get_leaks() never add, remove or change an *)
(* entry of the registry map: no step of any of the three changes the map, *)
(* and when the copy loop of get_leaks ends the copy equals the map.       *)
(***************************************************************************)
C11_ApiKeepsEntries ==
    [][\A t \in Threads :
         /\ (\/ enable(t) \/ disable(t)
             \/ get_leaks(t) \/ g_disable(t) \/ g_lock(t) \/ g_copy(t) \/ g_unlock(t) \/ g_restore(t)
             \/ (Return(t) /\ op[t] = "get_leaks")) => allocates' = allocates
         /\ g_unlock(t) => out[t] = allocates]_vars

\* get_leaks returns with tracking on again, after a block was allocated with tracking off
\* and another with tracking on: the first has no entry, the second has one
C11_Witness == \E t \in Threads : /\ LeaksDone(t) /\ enabled /\ out[t] = allocates
                                  /\ \E a \in Live : ~heap[a].traced /\ a \notin DOMAIN allocates
                                  /\ \E b \in Live : heap[b].traced /\ b \in DOMAIN allocates

\* thread t is in a realloc to which the System allocator returned a new address
Moved(t) == op[t] = "realloc" /\ ptr[t] # NULL /\ ptr[t] # ptr0[t]

(***************************************************************************)
(* C12. Moving reallocate, tracking enabled: when the call comes to its    *)
(* end the registry has no entry for old_pointer and has one for the new   *)
(* address, with new_size as size and the new address as ptr; and when the *)
(* insert of the new entry is executed the old entry is already gone.      *)
(***************************************************************************)
C12_MovingRealloc ==
    /\ [](\A t \in Threads : (pc[t] = "done" /\ Moved(t) /\ heap[ptr[t]].traced) =>
            /\ ptr0[t] \notin DOMAIN allocates
            /\ ptr[t] \in DOMAIN allocates
            /\ allocates[ptr[t]].size = size[t]
            /\ allocates[ptr[t]].ptr = ptr[t])
    /\ [][\A t \in Threads : (Inserts(t) /\ Moved(t)) => ptr0[t] \notin DOMAIN allocates]_vars

\* a block of size 1 with an entry was moved and resized to 2: the entry of the new address
\* says 2
C12_Witness == \E t \in Threads : /\ pc[t] = "done" /\ Moved(t) /\ heap[ptr[t]].traced
                                  /\ size[t] = 2 /\ ptr[t] \in DOMAIN allocates /\ allocates[ptr[t]].size = 2
                                  /\ ptr0[t] \notin DOMAIN allocates

\* thread t is in a realloc to which the System allocator returned old_pointer
InPlace(t) == op[t] = "realloc" /\ ptr[t] = ptr0[t]

(***************************************************************************)
(* C13. In-place reallocate: a realloc to which the System allocator       *)
(* returns old_pointer takes no step that changes the registry map, from   *)
(* the call of the System allocator to its return, so the record of the    *)
(* address keeps the size and the stack of the original allocation.        *)
(***************************************************************************)
C13_InPlaceRealloc ==
    [][\A t \in Threads :
         (\/ pc[t] = "idle" /\ op'[t] = "realloc" /\ ptr'[t] = ptr0'[t]
          \/ InPlace(t) /\ pc'[t] # pc[t]) => allocates' = allocates]_vars

\* a block with an entry was resized in place: the entry still says the old size
C13_Witness == \E t \in Threads : /\ pc[t] = "done" /\ InPlace(t)
                                  /\ ptr[t] \in DOMAIN allocates
                                  /\ heap[ptr[t]].size = size[t]
                                  /\ allocates[ptr[t]].size # size[t]

\* thread t is between the start of a dealloc call and its call of the System allocator
InDealloc(t) == op[t] = "dealloc" /\ pc[t] \in {"dealloc_accounting", "remove", "sys_dealloc"}

(***************************************************************************)
(* C14. Deallocate always forwards: a dealloc call that comes to its end   *)
(* has released the pointer to the System allocator exactly once, tracking *)
(* enabled or not, entry or no entry; until then it can always take its    *)
(* next step; and its remove leaves every entry but the pointer's own as   *)
(* it was, the whole map when the pointer has no entry.                    *)
(***************************************************************************)
C14_DeallocForwards ==
    /\ [](\A t \in Threads :
            /\ (pc[t] = "done" /\ op[t] = "dealloc") => (fwd[t] = 1 /\ ptr[t] \notin DOMAIN heap)
            /\ InDealloc(t) => (fwd[t] = 0 /\ ENABLED (dealloc_accounting(t) \/ remove(t) \/ sys_dealloc(t))))
    /\ [][\A t \in Threads : (op[t] = "dealloc" /\ pc[t] = "remove" /\ pc'[t] # pc[t]) =>
            /\ DOMAIN allocates' = DOMAIN allocates \ {ptr[t]}
            /\ \A k \in DOMAIN allocates' : allocates'[k] = allocates[k]]_vars

\* the remove was executed for a block allocated while tracking was disabled, which has no
\* entry, with another block's entry in the map
C14_Witness == \E t \in Threads : /\ op[t] = "dealloc" /\ pc[t] = "sys_dealloc" /\ enabled
                                  /\ ~heap[ptr[t]].traced /\ ptr[t] \notin DOMAIN allocates
                                  /\ allocates # EmptyMap

(***************************************************************************)
(* C15. Snapshot atomicity: while a thread holds the guard no insert and   *)
(* no remove is executed, the copy loop of get_leaks runs with the guard   *)
(* held from its first turn to its last, and the map get_leaks has built   *)
(* when it releases the guard equals the registry map at that instant.     *)
(***************************************************************************)
C15_SnapshotAtomic ==
    /\ [](\A t \in Threads : pc[t] = "g_copy" =>
            /\ lock = t
            /\ \A k \in DOMAIN out[t] : k \in DOMAIN allocates /\ out[t][k] = allocates[k])
    /\ [][/\ lock # Unlocked => allocates' = allocates
          /\ \A t \in Threads : g_unlock(t) => out[t] = allocates]_vars

\* the copy is under way with one entry copied and one not yet, while the other thread waits
\* at the guard for its insert or its remove
C15_Witness == \E t, u \in Threads : /\ pc[t] = "g_copy" /\ pc[u] \in {"insert", "remove"}
                                     /\ out[t] # EmptyMap /\ DOMAIN out[t] # DOMAIN allocates

(***************************************************************************)
(* C16. A moving realloc of one thread never removes or overwrites the     *)
(* record of another thread: with tracking enabled throughout, whenever no *)
(* call is in flight every block in its caller's hands has its entry, also *)
(* the block at an address that a realloc released and the System          *)
(* allocator handed to a concurrent alloc.  Violated: the realloc removes  *)
(* the entry of old_pointer after the System allocator has released the    *)
(* address.                                                                *)
(***************************************************************************)
C16_MoveKeepsOthersRecord == Quiescent => \A a \in Live : heap[a].traced => a \in DOMAIN allocates

(***************************************************************************)
(* C17. get_leaks on one thread does not make another thread's             *)
(* deallocations go unrecorded: with tracking enabled at first and no      *)
(* disable() ever called, whenever no call is in flight the registry has   *)
(* no entry for an address that is not allocated.  Violated: a dealloc     *)
(* that reads the flag while get_leaks holds it false skips its remove.    *)
(***************************************************************************)
C17_DeallocRecorded == Quiescent => DOMAIN allocates \subseteq DOMAIN heap

(***************************************************************************)
(* C18. No self-deadlock on the guard: no thread ever stands at the        *)
(* acquisition of the registry guard while it holds it, neither the insert *)
(* nor the copy loop routes an allocation through the hook, and a thread   *)
(* that holds the guard is in the copy loop of get_leaks and can take its  *)
(* next turn or release the guard.                                         *)
(***************************************************************************)
C18_NoSelfDeadlock ==
    \A t \in Threads :
        /\ pc[t] # "relock"
        /\ lock = t => (pc[t] = "g_copy" /\ ENABLED (g_copy(t) \/ g_unlock(t)))

\* the copy is complete and the guard still held, while the other thread, which read the
\* flag as true, waits at the guard for its insert
C18_Witness == \E t, u \in Threads : /\ lock = t /\ pc[t] = "g_copy"
                                     /\ allocates # EmptyMap /\ out[t] = allocates
                                     /\ pc[u] = "insert"

\* thread t stands at the flag read of alloc_accounting or of dealloc_accounting
AtFlag(t) == pc[t] \in {"alloc_accounting", "dealloc_accounting"}

(***************************************************************************)
(* C19. Disabled fast path: a hook call that reads the enabled flag as     *)
(* false captures no stack, does not come to the registry guard and leaves *)
(* the map as it was; and the flag read can be taken whoever holds the     *)
(* guard.                                                                  *)
(***************************************************************************)
C19_DisabledFastPath ==
    /\ [](\A t \in Threads : AtFlag(t) => ENABLED (alloc_accounting(t) \/ dealloc_accounting(t)))
    /\ [][\A t \in Threads : (AtFlag(t) /\ pc'[t] # pc[t] /\ ~enabled) =>
            /\ allocates' = allocates
            /\ lock' = lock
            /\ stack'[t] = stack[t]
            /\ pc'[t] \in {"done", "sys_dealloc", "alloc_accounting"}]_vars

\* an alloc that read the flag as false has come to its end with no entry made, while
\* another thread holds the guard
C19_Witness == \E t, u \in Threads : /\ lock = u /\ u # t
                                     /\ pc[t] = "done" /\ op[t] = "alloc"
                                     /\ ~heap[ptr[t]].traced /\ ptr[t] \notin DOMAIN allocates

\* the symbols of a sequence of frames, in delivery order
RECURSIVE Flat(_)
Flat(fs) == IF fs = << >> THEN << >> ELSE Head(fs) \o Flat(Tail(fs))

(***************************************************************************)
(* C20. Stack-walk stop rule: at every point of a walk the recorded calls  *)
(* are the symbols of all frames delivered after the first two, in         *)
(* delivery order (a frame of zero symbols adds nothing); the visitor has  *)
(* stopped the walk exactly when a frame past the first two has been       *)
(* delivered and the recorded calls are at least STACK_SIZE; and no frame  *)
(* was delivered after one at whose end they were.  Violated: a frame      *)
(* whose symbols do not all fit, or a symbol without address, aborts the   *)
(* walk (C8).                                                              *)
(***************************************************************************)
C20_StopRule ==
    LET shown == Flat(SubSeq(trace, SkipCount + 1, seen))
        before == Flat(SubSeq(trace, SkipCount + 1, seen - 1))
    IN /\ Len(walk.stack) = Len(shown)
       /\ \A i \in 1..Len(shown) : i <= Len(walk.stack) => walk.stack[i] = CallFrom(shown[i]).val
       /\ walk.st \in {"walk", "stop"}
       /\ walk.st = "stop" <=> (seen > SkipCount /\ Len(shown) >= STACK_SIZE)
       /\ seen > SkipCount + 1 => Len(before) < STACK_SIZE

====
